---- MODULE Spec2Model ----
(***************************************************************************)
(* Model of gira's issue-hierarchy subsystem:                              *)
(*   pkg/jira/utils.go   GetChildIssues, BuildIssueTree                    *)
(*   pkg/jira/client.go  GetIssue, SearchIssues (the transport boundary)   *)
(*   cmd/tree/tree.go    runTree                                           *)
(*                                                                         *)
(* The Go call stack is explicit: one frame per active call of             *)
(* GetChildIssues or BuildIssueTree, one action per stretch of code        *)
(* between two calls.  The tracker is the environment: what it answers to  *)
(* a query is chosen when the query is first sent and is the same every    *)
(* time the same query text is sent again; any call may fail.              *)
(*                                                                         *)
(* Texts (queries, error messages) are sequences of tokens, so that        *)
(* "message m contains query q" is a statement about the tokens.           *)
(* The module is built with Go >= 1.22 (README: Go 1.24.4), so that the    *)
(* loop variable of `for _, issue := range result.Issues` is a fresh       *)
(* variable per iteration and `&issue` is a distinct object each time.     *)
(***************************************************************************)
EXTENDS Integers, Sequences, FiniteSets, TLC

\* ------------------------------------------------------------------ bounds
\* issue keys the tracker knows when GetChildIssues is applied on its own
Keys == {"EPIC-1", "STORY-1", "SUB-1"}
\* issue keys the tracker knows when the tree command runs
TreeKeys == {"EPIC-1", "STORY-1"}
\* the ISSUE-KEY argument of the tree command (the keys are interchangeable)
RootKey == "EPIC-1"
\* the inline subtask lists the fetched root may carry
RootSubtasks == {<<>>, <<"EPIC-1">>, <<"STORY-1">>}
\* largest depth budget given to runTree (--depth)
MaxDepth == 2
\* longest answer of the tracker to one search, GetChildIssues on its own
MaxLen == 2
\* longest inline subtask list of the parent, GetChildIssues on its own
MaxSubtasks == 2
\* longest answer of the tracker to one search, tree command
MaxTreeLen == 1
\* the inline subtask lists an issue of a search result may carry, tree command
\* (childrenSearchFields does not ask for subtasks; a tracker may send them anyway)
InlineSubtasks == {<<>>, <<"STORY-1">>}
\* most nodes of a tree handed to a renderer on its own (ancestors not counted)
MaxNodes == 5
\* longest ancestor chain of a tree handed to a renderer on its own
MaxAncestors == 2

\* all sequences over S of length at most n
SeqsUpTo(S, n) == UNION {[1..m -> S] : m \in 0..n}

\* ------------------------------------------------------------------- state
VARIABLES
    pc,         \* position of the top-level caller (runTree, or a direct caller)
    stack,      \* call stack: frames of GetChildIssues / BuildIssueTree, top last
    retval,     \* what the call that returned last handed to its caller
    tracker,    \* answers the tracker has given so far, by query text
    declared,   \* Fields.Subtasks the tracker puts on the issue of each key
    log,        \* the calls made to the transport so far, in order
    rootIssue,  \* runTree's rootIssue (<<>> before it is fetched)
    depth,      \* the --depth flag
    invoked,    \* renderers / encoders invoked so far, in order
    runErr,     \* what the top-level caller returned (<<>> is nil)
    out         \* what was written so far: lines of text, or rows of the table

vars == <<pc, stack, retval, tracker, declared, log, rootIssue, depth, invoked, runErr, out>>

\* -------------------------------------------------------------- data types
\* a *Issue that is nil is <<>>, one that points to x is <<x>>
NIL == <<>>

\* jira.Issue: the fields the subsystem reads or writes
Issue(key, subtasks) ==
    [Key |-> key, Subtasks |-> subtasks, Parent |-> NIL, Children |-> <<>>]

\* the issue objects a search result holds for the answered keys
ResultIssues(keys) == [n \in DOMAIN keys |-> Issue(keys[n], declared[keys[n]])]

\* fmt.Errorf(text + arg + ": %w", wrapped): one segment in front of the chain
Errorf(text, arg, wrapped) == <<[text |-> text, arg |-> arg]>> \o wrapped

\* the message of an error contains the text `t`
Carries(err, t) == \E n \in DOMAIN err : err[n].arg = t

\* the ways a call to the transport fails: client.get fails (SearchIssues /
\* GetIssue wrap it), or handleResponse rejects the response (a status outside
\* 2xx stands for its three failures: none of them is given the request)
SearchFailures == { Errorf("API request failed with status", <<>>, <<>>) }

GetFailures == { Errorf("API request failed with status", <<>>, <<>>) }

\* subtaskJQL: "key IN (k1,k2,...)"
SubtaskJQL(subtaskKeys) == <<"key IN">> \o subtaskKeys

\* combinedJQL: parent = K OR "Epic Link" = K
CombinedJQL(key) == <<"parent =", key, "OR Epic Link =", key>>

\* ------------------------------------------------------------------ frames
Frame(fn, issue, maxDepth, fpc) ==
    [fn |-> fn, issue |-> issue, maxDepth |-> maxDepth, pc |-> fpc,
     children |-> <<>>, foundKeys |-> {}, i |-> 1]

Top == stack[Len(stack)]
Pop == SubSeq(stack, 1, Len(stack) - 1)
SetTop(f) == [stack EXCEPT ![Len(stack)] = f]
Running(fn, fpc) == Len(stack) > 0 /\ Top.fn = fn /\ Top.pc = fpc

\* a return value: err is the error chain (<<>> is nil), children the slice
\* GetChildIssues returns, obj the issue object the callee mutated in place
Ret(err, children, obj) == [err |-> err, children |-> children, obj |-> obj]
NoRet == Ret(<<>>, <<>>, <<>>)

\* ---------------------------------------------------------------- transport
\* client.SearchIssues(jql): the tracker answers (the same way as before if it
\* has seen the query) or the call fails
Answers ==
    IF pc = "GetChildIssues" THEN SeqsUpTo(Keys, MaxLen)
    ELSE SeqsUpTo(TreeKeys, MaxTreeLen)

SearchAnswers(jql) ==
    IF jql \in DOMAIN tracker THEN {tracker[jql]} ELSE Answers

Record(jql, ans) ==
    IF jql \in DOMAIN tracker THEN tracker ELSE (jql :> ans) @@ tracker


\* ------------------------------------------------------------ GetChildIssues
\* utils.go 60-68: append the issues of the combined result whose key is not
\* yet in foundKeys, marking each appended key
RECURSIVE MergeResult(_, _, _)
MergeResult(children, foundKeys, issues) ==
    IF issues = <<>> THEN children
    ELSE IF Head(issues).Key \in foundKeys
         THEN MergeResult(children, foundKeys, Tail(issues))
         ELSE MergeResult(Append(children, Head(issues)),
                          foundKeys \cup {Head(issues).Key}, Tail(issues))

\* utils.go 31-36: the keys marked found before any query is sent
DeclaredKeys(parentIssue) ==
    {parentIssue.Subtasks[n] : n \in DOMAIN parentIssue.Subtasks}

\* utils.go 39: the text of the batch query
BatchQueryOf(parentIssue) == SubtaskJQL(parentIssue.Subtasks)

\* utils.go 42: the error returned when the batch query fails
BatchError(jql, err) == Errorf("failed to batch fetch subtasks", <<>>, err)

\* utils.go 57: the error returned when the combined query fails
CombinedError(jql, err) == Errorf("JQL search failed for", jql, err)

\* mutant of QueryFailed: the issues collected so far are returned with the error
QueryFailed_Partial(children, err) == Ret(err, children, <<>>)

\* utils.go 41-43, 56-58: what GetChildIssues returns when a query failed:
\* the error and a nil slice, whatever `children` holds by then
QueryFailed(children, err) == Ret(err, <<>>, <<>>)

\* utils.go 22-48: no inline subtasks: nothing is sent
GetChildIssues_NoSubtasks ==
    /\ Running("GetChildIssues", "start")
    /\ Len(Top.issue.Subtasks) = 0
    /\ stack' = SetTop([Top EXCEPT !.pc = "combined"])
    /\ UNCHANGED <<pc, retval, tracker, declared, log, rootIssue, depth, invoked, runErr, out>>

\* utils.go 22-48: inline subtasks: one batch query for all of them
GetChildIssues_Subtasks ==
    /\ Running("GetChildIssues", "start")
    /\ Len(Top.issue.Subtasks) > 0
    /\ LET jql == BatchQueryOf(Top.issue) IN
       \/ \E ans \in SearchAnswers(jql) :
            /\ tracker' = Record(jql, ans)
            /\ log' = Append(log, [jql |-> jql, ok |-> TRUE])
            /\ stack' = SetTop([Top EXCEPT !.pc = "combined",
                                           !.foundKeys = DeclaredKeys(Top.issue),
                                           !.children = ResultIssues(ans)])
            /\ UNCHANGED retval
       \/ \E err \in SearchFailures :
            /\ log' = Append(log, [jql |-> jql, ok |-> FALSE])
            /\ stack' = Pop
            /\ retval' = QueryFailed(<<>>, BatchError(jql, err))
            /\ UNCHANGED tracker
    /\ UNCHANGED <<pc, declared, rootIssue, depth, invoked, runErr, out>>

\* utils.go 50-70: the combined parent / Epic Link query, the merge, the return
GetChildIssues_Combined ==
    /\ Running("GetChildIssues", "combined")
    /\ LET jql == CombinedJQL(Top.issue.Key) IN
       \/ \E ans \in SearchAnswers(jql) :
            /\ tracker' = Record(jql, ans)
            /\ log' = Append(log, [jql |-> jql, ok |-> TRUE])
            /\ retval' = Ret(<<>>, MergeResult(Top.children, Top.foundKeys,
                                               ResultIssues(ans)), <<>>)
       \/ \E err \in SearchFailures :
            /\ log' = Append(log, [jql |-> jql, ok |-> FALSE])
            /\ retval' = QueryFailed(Top.children, CombinedError(jql, err))
            /\ UNCHANGED tracker
    /\ stack' = Pop
    /\ UNCHANGED <<pc, declared, rootIssue, depth, invoked, runErr, out>>

\* ------------------------------------------------------------ BuildIssueTree
\* mutants of BudgetSpent: `== 0` and `< 0` in place of `<= 0`
BudgetSpent_OnlyZero(maxDepth) == maxDepth = 0
BudgetSpent_Strict(maxDepth) == maxDepth < 0

\* utils.go 75: the recursion stops here
BudgetSpent(maxDepth) == maxDepth <= 0

\* utils.go 83: the error returned when GetChildIssues failed
GetChildrenError(issue, err) ==
    Errorf("failed to get child issues for", <<issue.Key>>, err)

\* mutants of ChildBudget: a level is skipped; the budget is not spent
ChildBudget_Skip(maxDepth) == maxDepth - 2
ChildBudget_Same(maxDepth) == maxDepth

\* utils.go 90: the budget handed to each child
ChildBudget(maxDepth) == maxDepth - 1

\* utils.go 73-81: base case, or the call of GetChildIssues
BuildIssueTree_Entry ==
    /\ Running("BuildIssueTree", "start")
    /\ IF BudgetSpent(Top.maxDepth)
       THEN /\ stack' = Pop
            /\ retval' = Ret(<<>>, <<>>, <<[Top.issue EXCEPT !.Children = <<>>]>>)
       ELSE /\ stack' = Append(SetTop([Top EXCEPT !.pc = "afterGet"]),
                               Frame("GetChildIssues", Top.issue, 0, "start"))
            /\ retval' = NoRet
    /\ UNCHANGED <<pc, tracker, declared, log, rootIssue, depth, invoked, runErr, out>>

\* utils.go 82-87: GetChildIssues returned
BuildIssueTree_AfterGet ==
    /\ Running("BuildIssueTree", "afterGet")
    /\ IF retval.err # <<>>
       THEN /\ stack' = Pop
            /\ retval' = Ret(GetChildrenError(Top.issue, retval.err), <<>>, <<Top.issue>>)
       ELSE /\ stack' = SetTop([Top EXCEPT !.pc = "loop", !.i = 1,
                                           !.children = retval.children,
                                           !.issue.Children = <<>>])
            /\ retval' = NoRet
    /\ UNCHANGED <<pc, tracker, declared, log, rootIssue, depth, invoked, runErr, out>>

\* mutant of NextChild: the children are visited last to first
NextChild_Reversed(children, i) == children[Len(children) - i + 1]

\* utils.go 89: `for _, child := range children` visits them first to last
NextChild(children, i) == children[i]

\* utils.go 89-90, 98: the loop head: build the next child, or return nil
BuildIssueTree_Loop ==
    /\ Running("BuildIssueTree", "loop")
    /\ IF Top.i > Len(Top.children)
       THEN /\ stack' = Pop
            /\ retval' = Ret(<<>>, <<>>, <<Top.issue>>)
       ELSE /\ stack' = Append(SetTop([Top EXCEPT !.pc = "afterChild"]),
                               Frame("BuildIssueTree", NextChild(Top.children, Top.i),
                                     ChildBudget(Top.maxDepth), "start"))
            /\ retval' = NoRet
    /\ UNCHANGED <<pc, tracker, declared, log, rootIssue, depth, invoked, runErr, out>>

\* mutant of AfterChild: a child that failed is skipped and the loop goes on
AfterChild_Continue(frame, ret) ==
    [stack |-> SetTop([frame EXCEPT !.pc = "loop", !.i = frame.i + 1,
                             !.issue.Children =
                                 IF ret.err # <<>> THEN @ ELSE Append(@, ret.obj[1])]),
     retval |-> NoRet]

\* mutant of AfterChild: the built child is put in front of its siblings
AfterChild_Prepend(frame, ret) ==
    IF ret.err # <<>>
    THEN [stack |-> Pop, retval |-> Ret(ret.err, <<>>, <<frame.issue>>)]
    ELSE [stack |-> SetTop([frame EXCEPT !.pc = "loop", !.i = frame.i + 1,
                                  !.issue.Children = <<ret.obj[1]>> \o @]),
          retval |-> NoRet]

\* mutant of AfterChild: the child is given a back-reference to its parent
AfterChild_SetsParent(frame, ret) ==
    IF ret.err # <<>>
    THEN [stack |-> Pop, retval |-> Ret(ret.err, <<>>, <<frame.issue>>)]
    ELSE [stack |-> SetTop([frame EXCEPT !.pc = "loop", !.i = frame.i + 1,
                                  !.issue.Children =
                                      Append(@, [ret.obj[1] EXCEPT
                                                   !.Parent = <<frame.issue>>])]),
          retval |-> NoRet]

\* mutant of AfterChild: a failure rolls the children of the node back
AfterChild_RollsBack(frame, ret) ==
    IF ret.err # <<>>
    THEN [stack |-> Pop,
          retval |-> Ret(ret.err, <<>>, <<[frame.issue EXCEPT !.Children = <<>>]>>)]
    ELSE [stack |-> SetTop([frame EXCEPT !.pc = "loop", !.i = frame.i + 1,
                                  !.issue.Children = Append(@, ret.obj[1])]),
          retval |-> NoRet]

\* utils.go 91-95: the recursive call returned
AfterChild(frame, ret) ==
    IF ret.err # <<>>
    THEN [stack |-> Pop, retval |-> Ret(ret.err, <<>>, <<frame.issue>>)]
    ELSE [stack |-> SetTop([frame EXCEPT !.pc = "loop", !.i = frame.i + 1,
                                  !.issue.Children = Append(@, ret.obj[1])]),
          retval |-> NoRet]

BuildIssueTree_AfterChild ==
    /\ Running("BuildIssueTree", "afterChild")
    /\ stack' = AfterChild(Top, retval).stack
    /\ retval' = AfterChild(Top, retval).retval
    /\ UNCHANGED <<pc, tracker, declared, log, rootIssue, depth, invoked, runErr, out>>

\* ---------------------------------------------------------------- renderers
\* A text is the sequence of its pieces, "" is <<>> and s + t is s \o t. The
\* box-drawing glyphs are written in ASCII: TEE is the branch connector (a
\* vertical bar with a branch to the right, two dashes, a space), ELL the
\* corner connector (a corner, two dashes, a space), BAR the vertical bar
\* followed by three spaces, GAP four spaces.
TEE == "+-- "
ELL == "L-- "
BAR == "|   "
GAP == "    "

\* tree.go 158-175: the label of an issue: it starts with the issue's key; the
\* summary and status that follow are those of that issue
formatIssueInfo(issue) == <<issue.Key>>

\* mutant of IsTop: the depth alone decides
IsTop_DepthOnly(issue, d) == d <= 0

\* tree.go 96, 105: `depth <= 0 && issue.Parent == nil`
IsTop(issue, d) == d <= 0 /\ issue.Parent = NIL

\* mutant of connector: the two connectors are swapped
connector_Swapped(issue, d, isLast) ==
    IF IsTop(issue, d) THEN <<>>
    ELSE IF isLast THEN <<TEE>> ELSE <<ELL>>

\* mutant of connector: every child is drawn as a non-last one
connector_AlwaysTee(issue, d, isLast) ==
    IF IsTop(issue, d) THEN <<>> ELSE <<TEE>>

\* tree.go 92-98: the connector of the line of `issue`
connector(issue, d, isLast) ==
    IF IsTop(issue, d) THEN <<>>
    ELSE IF isLast THEN <<ELL>> ELSE <<TEE>>

\* mutant of childPrefix: the units of last and non-last nodes are swapped
childPrefix_Swapped(issue, prefix, d, isLast) ==
    IF IsTop(issue, d) THEN <<>>
    ELSE IF isLast THEN prefix \o <<BAR>>
    ELSE prefix \o <<GAP>>

\* tree.go 104-111: the prefix handed to the children of `issue`
childPrefix(issue, prefix, d, isLast) ==
    IF IsTop(issue, d) THEN <<>>
    ELSE IF isLast THEN prefix \o <<GAP>>
    ELSE prefix \o <<BAR>>

\* tree.go 86-118: renderTree, the lines it prints in order; `issue` is a
\* pointer (NIL or <<x>>), renderTreeChildren is the loop of lines 114-117
RECURSIVE renderTree(_, _, _, _)
RECURSIVE renderTreeChildren(_, _, _, _)
\* mutant of renderTree: a line is printed for a nil node too
renderTree_NilLine(issue, prefix, d, isLast) ==
    IF issue = NIL THEN <<prefix \o <<"<nil>">>>>
    ELSE <<prefix \o connector(issue[1], d, isLast) \o formatIssueInfo(issue[1])>>
             \o renderTreeChildren(issue[1].Children, 1,
                                   childPrefix(issue[1], prefix, d, isLast), d + 1)

renderTree(issue, prefix, d, isLast) ==
    IF issue = NIL THEN <<>>
    ELSE <<prefix \o connector(issue[1], d, isLast) \o formatIssueInfo(issue[1])>>
             \o renderTreeChildren(issue[1].Children, 1,
                                   childPrefix(issue[1], prefix, d, isLast), d + 1)
renderTreeChildren(children, i, prefix, d) ==
    IF i > Len(children) THEN <<>>
    ELSE renderTree(<<children[i]>>, prefix, d, i = Len(children))
             \o renderTreeChildren(children, i + 1, prefix, d)

\* tree.go 141-147: the connector of the line of an issue, reverse rendering
reverseConnector(d, isLast) ==
    IF d <= 0 THEN <<>>
    ELSE IF isLast THEN <<ELL>> ELSE <<TEE>>

\* tree.go 126-133: the prefix handed to the children, reverse rendering
reverseChildPrefix(prefix, d, isLast) ==
    IF d <= 0 THEN <<>>
    ELSE IF isLast THEN prefix \o <<GAP>>
    ELSE prefix \o <<BAR>>

\* tree.go 120-156: renderTreeReverse, the lines it prints in order
RECURSIVE renderTreeReverse(_, _, _, _)
RECURSIVE renderTreeReverseChildren(_, _, _, _)
\* mutant of renderTreeReverse: the ancestor chain is rendered before the line
renderTreeReverse_AncestorsFirst(issue, prefix, d, isLast) ==
    IF issue = NIL THEN <<>>
    ELSE renderTreeReverseChildren(issue[1].Children, 1,
                                   reverseChildPrefix(prefix, d, isLast), d + 1)
             \o (IF issue[1].Parent # NIL
                 THEN renderTreeReverse(issue[1].Parent, <<>>, d - 1, TRUE)
                 ELSE <<>>)
             \o <<prefix \o reverseConnector(d, isLast) \o formatIssueInfo(issue[1])>>

renderTreeReverse(issue, prefix, d, isLast) ==
    IF issue = NIL THEN <<>>
    ELSE renderTreeReverseChildren(issue[1].Children, 1,
                                   reverseChildPrefix(prefix, d, isLast), d + 1)
             \o <<prefix \o reverseConnector(d, isLast) \o formatIssueInfo(issue[1])>>
             \o (IF issue[1].Parent # NIL
                 THEN renderTreeReverse(issue[1].Parent, <<>>, d - 1, TRUE)
                 ELSE <<>>)
renderTreeReverseChildren(children, i, prefix, d) ==
    IF i > Len(children) THEN <<>>
    ELSE renderTreeReverse(<<children[i]>>, prefix, d, i = Len(children))
             \o renderTreeReverseChildren(children, i + 1, prefix, d)

\* strings.Repeat(s, count) for count >= 0
RECURSIVE Repeat(_, _)
Repeat(s, count) == IF count <= 0 THEN <<>> ELSE s \o Repeat(s, count - 1)

\* mutant of buildTableRow: one bar unit per level, the first level included
buildTableRow_Deeper(issue, d) ==
    LET idColumn ==
            IF d <= 0 THEN <<issue.Key>>
            ELSE Repeat(<<BAR>>, d) \o <<TEE>> \o <<issue.Key>>
    IN  <<idColumn>>

\* tree.go 252-296: buildTableRow: the row of an issue, a sequence of columns
\* of which the leading one (idColumn) is kept; the others are fields of the issue
buildTableRow(issue, d) ==
    LET idColumn ==
            IF d = 0 THEN <<issue.Key>>
            ELSE IF d < 0 THEN <<issue.Key>>
            ELSE (IF d = 1 THEN <<TEE>> ELSE Repeat(<<BAR>>, d - 1) \o <<TEE>>)
                     \o <<issue.Key>>
    IN  <<idColumn>>

\* tree.go 232-250: collectTableRowsRecursively, the rows it appends in order
RECURSIVE collectTableRowsRecursively(_, _)
RECURSIVE collectTableRowsOfChildren(_, _, _)
\* mutant of collectTableRowsRecursively: the row follows the children's rows
collectTableRowsRecursively_RowLast(issue, d) ==
    IF issue = NIL THEN <<>>
    ELSE (IF issue[1].Parent # NIL
          THEN collectTableRowsRecursively(issue[1].Parent, d - 1) ELSE <<>>)
             \o collectTableRowsOfChildren(issue[1].Children, 1, d + 1)
             \o <<buildTableRow(issue[1], d)>>

collectTableRowsRecursively(issue, d) ==
    IF issue = NIL THEN <<>>
    ELSE (IF issue[1].Parent # NIL
          THEN collectTableRowsRecursively(issue[1].Parent, d - 1) ELSE <<>>)
             \o <<buildTableRow(issue[1], d)>>
             \o collectTableRowsOfChildren(issue[1].Children, 1, d + 1)
collectTableRowsOfChildren(children, i, d) ==
    IF i > Len(children) THEN <<>>
    ELSE collectTableRowsRecursively(<<children[i]>>, d)
             \o collectTableRowsOfChildren(children, i + 1, d)

\* tree.go 184-230: renderTable: the rows handed to the table, in order
renderTable(issue) == collectTableRowsRecursively(issue, 0)

\* tree.go 305-322: outputResult: one document, written by the encoder
outputResult(outputFormat, issue) == <<<<outputFormat>> \o formatIssueInfo(issue[1])>>

\* tree.go 70-83: what the selected renderer or encoder writes
Output(outputFormat, reverse, issue) ==
    CASE outputFormat \in {"json", "yaml"} -> outputResult(outputFormat, issue)
      [] outputFormat = "table" -> renderTable(issue)
      [] OTHER -> IF reverse THEN renderTreeReverse(issue, <<>>, 0, TRUE)
                  ELSE renderTree(issue, <<>>, 0, TRUE)

\* ------------------------------------------------------------------ runTree
\* tree.go 55-62: fetch the root, then call BuildIssueTree on it
runTree_GetIssue ==
    /\ pc = "GetIssue"
    /\ LET issueKey == RootKey IN
       \/ \E subtasks \in RootSubtasks :
            /\ rootIssue' = <<Issue(issueKey, subtasks)>>
            /\ invoked' = Append(invoked, [call |-> "GetIssue", ok |-> TRUE])
            /\ stack' = <<Frame("BuildIssueTree", Issue(issueKey, subtasks),
                                depth, "start")>>
            /\ pc' = "BuildIssueTree"
            /\ UNCHANGED runErr
       \/ \E err \in GetFailures :
            /\ runErr' = Errorf("failed to get issue", <<issueKey>>, err)
            /\ invoked' = Append(invoked, [call |-> "GetIssue", ok |-> FALSE])
            /\ pc' = "Done"
            /\ UNCHANGED <<rootIssue, stack>>
    /\ UNCHANGED <<retval, tracker, declared, log, depth, out>>

\* tree.go 70-83: the renderer or encoder the flags select
OutputFormats == {"", "json", "yaml", "table"}

\* mutant of Renderer: the reverse flag is consulted before the output format
Renderer_ReverseFirst(outputFormat, reverse) ==
    IF reverse THEN "renderTreeReverse"
    ELSE CASE outputFormat \in {"json", "yaml"} -> "outputResult"
           [] outputFormat = "table" -> "renderTable"
           [] OTHER -> "renderTree"

Renderer(outputFormat, reverse) ==
    CASE outputFormat \in {"json", "yaml"} -> "outputResult"
      [] outputFormat = "table" -> "renderTable"
      [] OTHER -> IF reverse THEN "renderTreeReverse" ELSE "renderTree"

\* tree.go 68-83: the invocation the switch makes, with the flags it has read:
\* the output format always, the reverse flag in the default branch only
Selected(outputFormat, reverse) ==
    IF outputFormat \in {"json", "yaml", "table"}
    THEN [call |-> Renderer(outputFormat, reverse), ok |-> TRUE,
          outputFormat |-> outputFormat]
    ELSE [call |-> Renderer(outputFormat, reverse), ok |-> TRUE,
          outputFormat |-> outputFormat, reverse |-> reverse]

\* mutant of BuildFailed: the error of BuildIssueTree is ignored
BuildFailed_Ignored(err) == FALSE

\* tree.go 63: `if err != nil` after BuildIssueTree
BuildFailed(err) == err # <<>>

\* tree.go 62-83: BuildIssueTree returned
runTree_Output ==
    /\ pc = "BuildIssueTree"
    /\ stack = <<>>
    /\ rootIssue' = retval.obj
    /\ LET built == [call |-> "BuildIssueTree", ok |-> retval.err = <<>>] IN
       IF BuildFailed(retval.err)
       THEN /\ runErr' = Errorf("failed to build issue tree", <<>>, retval.err)
            /\ invoked' = Append(invoked, built)
            /\ UNCHANGED out
       ELSE /\ \E outputFormat \in OutputFormats, reverse \in BOOLEAN :
                 /\ invoked' = invoked \o
                      <<built, Selected(outputFormat, reverse)>>
                 /\ out' = Output(outputFormat, reverse, retval.obj)
            /\ UNCHANGED runErr
    /\ pc' = "Done"
    /\ retval' = NoRet
    /\ UNCHANGED <<stack, tracker, declared, log, depth>>

\* ------------------------------------------------------------ specifications
Depths == (0 - 1) .. MaxDepth

\* the tree command
Init ==
    /\ pc = "GetIssue"
    /\ stack = <<>>
    /\ retval = NoRet
    /\ tracker = <<>>
    /\ declared \in [TreeKeys -> InlineSubtasks]
    /\ log = <<>>
    /\ rootIssue = NIL
    /\ depth \in Depths
    /\ invoked = <<>>
    /\ runErr = <<>>
    /\ out = <<>>

Next ==
    \/ runTree_GetIssue
    \/ GetChildIssues_NoSubtasks
    \/ GetChildIssues_Subtasks
    \/ GetChildIssues_Combined
    \/ BuildIssueTree_Entry
    \/ BuildIssueTree_AfterGet
    \/ BuildIssueTree_Loop
    \/ BuildIssueTree_AfterChild
    \/ runTree_Output

Spec == Init /\ [][Next]_vars

\* the tree command as it runs: a sequential program whose every call to the
\* transport returns (an answer or an error), so a step that can be taken is taken
SpecFair == Init /\ [][Next]_vars /\ WF_vars(Next)

\* GetChildIssues applied on its own to one parent issue
InitResolve ==
    /\ pc = "GetChildIssues"
    /\ \E key \in Keys, subtasks \in SeqsUpTo(Keys, MaxSubtasks) :
         stack = <<Frame("GetChildIssues", Issue(key, subtasks), 0, "start")>>
    /\ retval = NoRet
    /\ tracker = <<>>
    /\ declared = [k \in Keys |-> <<>>]
    /\ log = <<>>
    /\ rootIssue = <<stack[1].issue>>
    /\ depth = 0
    /\ invoked = <<>>
    /\ runErr = <<>>
    /\ out = <<>>

NextResolve ==
    \/ GetChildIssues_NoSubtasks
    \/ GetChildIssues_Subtasks
    \/ GetChildIssues_Combined

SpecResolve == InitResolve /\ [][NextResolve]_vars

\* ---- the tree command against the tracker of the end-to-end scenario: the
\* combined query of EPIC-1 answers [STORY-1, STORY-2], STORY-1 comes with the
\* inline subtask SUB-1, which the batch query fetches, and no other query
\* matches anything
ScenarioKeys == {"EPIC-1", "STORY-1", "STORY-2", "SUB-1"}

ScenarioTracker ==
    (CombinedJQL("EPIC-1") :> <<"STORY-1", "STORY-2">>)
        @@ (SubtaskJQL(<<"SUB-1">>) :> <<"SUB-1">>)
        @@ [jql \in {CombinedJQL(k) : k \in ScenarioKeys \ {"EPIC-1"}} |-> <<>>]

ScenarioDeclared ==
    [k \in ScenarioKeys |-> IF k = "STORY-1" THEN <<"SUB-1">> ELSE <<>>]

InitScenario ==
    /\ pc = "GetIssue"
    /\ stack = <<>>
    /\ retval = NoRet
    /\ tracker = ScenarioTracker
    /\ declared = ScenarioDeclared
    /\ log = <<>>
    /\ rootIssue = NIL
    /\ depth \in Depths
    /\ invoked = <<>>
    /\ runErr = <<>>
    /\ out = <<>>

SpecScenario == InitScenario /\ [][Next]_vars

\* ---- a renderer applied on its own to a tree decoded from the tracker's JSON
\* (part_002 51-52: both `parent` and `children` are fields of the decoded issue)
\* the shapes of the forests of n nodes: a shape is the sequence of the shapes
\* of its children
RECURSIVE Forests(_)
Forests(n) ==
    IF n = 0 THEN {<<>>}
    ELSE UNION {{<<t>> \o f : t \in Forests(k - 1), f \in Forests(n - k)} : k \in 1..n}

RECURSIVE Size(_)
RECURSIVE SizeOf(_)
Size(shape) == 1 + SizeOf(shape)
SizeOf(forest) ==
    IF forest = <<>> THEN 0 ELSE Size(Head(forest)) + SizeOf(Tail(forest))

\* the issue tree of a shape, its nodes keyed "1", "2", ... in pre-order
RECURSIVE TreeOf(_, _, _)
RECURSIVE TreesOf(_, _)
TreeOf(shape, first, parent) ==
    [Key |-> ToString(first), Subtasks |-> <<>>, Parent |-> parent,
     Children |-> TreesOf(shape, first + 1)]
TreesOf(forest, first) ==
    IF forest = <<>> THEN <<>>
    ELSE <<TreeOf(Head(forest), first, NIL)>>
             \o TreesOf(Tail(forest), first + Size(Head(forest)))

\* the ancestors k, k+1, ..., a levels above the rendered issue, keyed "-k";
\* with `siblings` each ancestor holds one child, keyed "-k.1"
RECURSIVE Ancestors(_, _, _)
Ancestors(k, a, siblings) ==
    IF k > a THEN NIL
    ELSE <<[Key |-> ToString(0 - k), Subtasks |-> <<>>,
            Parent |-> Ancestors(k + 1, a, siblings),
            Children |-> IF siblings
                         THEN <<[Key |-> ToString(0 - k) \o ".1", Subtasks |-> <<>>,
                                 Parent |-> NIL, Children |-> <<>>]>>
                         ELSE <<>>]>>

\* the pointers a renderer is given: nil, or a tree with an ancestor chain
RenderInputs ==
    {NIL} \cup
    {<<TreeOf(shape, 1, Ancestors(1, a, siblings))>> :
        shape \in UNION {Forests(n - 1) : n \in 1..MaxNodes},
        a \in 0..MaxAncestors, siblings \in BOOLEAN}

InitRender ==
    /\ pc = "render"
    /\ stack = <<>>
    /\ retval = NoRet
    /\ tracker = <<>>
    /\ declared = [k \in TreeKeys |-> <<>>]
    /\ log = <<>>
    /\ rootIssue \in RenderInputs
    /\ depth = 0
    /\ invoked = <<>>
    /\ runErr = <<>>
    /\ out = <<>>

\* tree.go 80, 78, 74: the calls of the three renderers
Render(renderer, written) ==
    /\ pc = "render"
    /\ out' = written
    /\ invoked' = <<[call |-> renderer, ok |-> TRUE]>>
    /\ pc' = "Done"
    /\ UNCHANGED <<stack, retval, tracker, declared, log, rootIssue, depth, runErr>>

RenderForward == Render("renderTree", renderTree(rootIssue, <<>>, 0, TRUE))
RenderReverse == Render("renderTreeReverse", renderTreeReverse(rootIssue, <<>>, 0, TRUE))
RenderTable == Render("renderTable", renderTable(rootIssue))

NextRender ==
    \/ RenderForward
    \/ RenderReverse
    \/ RenderTable

SpecRender == InitRender /\ [][NextRender]_vars

\* the renderer runTree calls does run: the command is sequential code
SpecRenderFair == InitRender /\ [][NextRender]_vars /\ WF_vars(NextRender)


\* ============================================================== properties
Max(S) == CHOOSE x \in S : \A y \in S : y <= x

KeysOf(issues) == [n \in DOMAIN issues |-> issues[n].Key]
KeySet(issues) == {issues[n].Key : n \in DOMAIN issues}

\* the tracker's answer to a query, empty while the query was never sent
Answered(jql) == IF jql \in DOMAIN tracker THEN tracker[jql] ELSE <<>>

\* what the resolver finds below an issue, read off the tracker's answers
Resolve(issue) ==
    MergeResult(
        IF Len(issue.Subtasks) > 0
        THEN ResultIssues(Answered(BatchQueryOf(issue))) ELSE <<>>,
        DeclaredKeys(issue),
        ResultIssues(Answered(CombinedJQL(issue.Key))))

\* levels of the hierarchy the resolver can find below an issue, up to `fuel`
RECURSIVE HierarchyDepth(_, _)
HierarchyDepth(issue, fuel) ==
    LET resolved == Resolve(issue) IN
    IF fuel <= 0 \/ resolved = <<>> THEN 0
    ELSE 1 + Max({HierarchyDepth(resolved[n], fuel - 1) : n \in DOMAIN resolved})

\* levels of the built tree below a node
RECURSIVE Height(_)
Height(node) ==
    IF node.Children = <<>> THEN 0
    ELSE 1 + Max({Height(node.Children[n]) : n \in DOMAIN node.Children})

\* the nodes of the built tree d levels below a node
RECURSIVE NodesAt(_, _)
NodesAt(node, d) ==
    IF d = 0 THEN {node}
    ELSE UNION {NodesAt(node.Children[n], d - 1) : n \in DOMAIN node.Children}

\* no node lies more than `budget` levels below `node`
RECURSIVE DepthBounded(_, _)
DepthBounded(node, budget) ==
    IF budget <= 0 THEN node.Children = <<>>
    ELSE \A n \in DOMAIN node.Children : DepthBounded(node.Children[n], budget - 1)

\* runTree is over and both GetIssue and BuildIssueTree returned nil
BuildSucceeded == pc = "Done" /\ runErr = <<>> /\ rootIssue # NIL

\* the run is over and `renderer` was the last thing invoked
Rendered(renderer) ==
    /\ pc = "Done"
    /\ invoked # <<>>
    /\ invoked[Len(invoked)].call = renderer

\* C1: a call of BuildIssueTree with maxDepth <= 0 returns at once, with a nil
\* error and an empty Children on its issue, and sends no query, whatever
\* subtasks the issue declares and whatever the tracker would answer.
C1_BaseCase ==
    [][ (Running("BuildIssueTree", "start") /\ Top.maxDepth <= 0)
        => /\ stack' = Pop
           /\ retval'.err = <<>>
           /\ retval'.obj # NIL
           /\ retval'.obj[1].Children = <<>>
           /\ log' = log ]_vars

\* C1 witness: the tree command ran with --depth <= 0 on a root that declares
\* subtasks and ended with a childless root and no query sent
C1_Witness ==
    /\ BuildSucceeded
    /\ depth <= 0
    /\ rootIssue[1].Subtasks # <<>>
    /\ rootIssue[1].Children = <<>>
    /\ log = <<>>

NoRepeat(seq) == \A m, n \in DOMAIN seq : m # n => seq[m] # seq[n]
Range(seq) == {seq[n] : n \in DOMAIN seq}
Count(x, seq) == Cardinality({n \in DOMAIN seq : seq[n] = x})

\* no node of the tree has two children with the same key
RECURSIVE ChildrenDistinct(_)
ChildrenDistinct(node) ==
    /\ NoRepeat(KeysOf(node.Children))
    /\ \A n \in DOMAIN node.Children : ChildrenDistinct(node.Children[n])

\* C3: no key occurs twice in a sequence GetChildIssues returns, nor among the
\* children of any node of a tree BuildIssueTree built, whatever the batch query
\* and the combined query answered.
C3_NoDuplicateChildren ==
    /\ retval.err = <<>> => NoRepeat(KeysOf(retval.children))
    /\ BuildSucceeded => ChildrenDistinct(rootIssue[1])

\* GetChildIssues, applied on its own, returned nil as its error
Resolved == pc = "GetChildIssues" /\ stack = <<>> /\ retval.err = <<>>

\* the keys the batch query and the combined query answered for the parent
BatchKeys ==
    IF Len(rootIssue[1].Subtasks) > 0
    THEN Answered(BatchQueryOf(rootIssue[1])) ELSE <<>>
CombinedKeys == Answered(CombinedJQL(rootIssue[1].Key))

\* the part of the returned sequence behind the batch issues
ResultKeys == KeysOf(retval.children)
ResultTail == SubSeq(ResultKeys, Len(BatchKeys) + 1, Len(ResultKeys))

\* `sub` is `seq` with some elements left out
RECURSIVE IsSubsequence(_, _)
IsSubsequence(sub, seq) ==
    IF sub = <<>> THEN TRUE
    ELSE IF seq = <<>> THEN FALSE
    ELSE IF Head(sub) = Head(seq) THEN IsSubsequence(Tail(sub), Tail(seq))
    ELSE IsSubsequence(sub, Tail(seq))

\* C4: GetChildIssues returns the batch issues in the order answered, then
\* issues of the combined answer in the order answered (some skipped, none
\* moved), and a key answered by both queries occurs exactly once in the result.
C4_MergeOrder ==
    Resolved =>
        /\ Len(ResultKeys) >= Len(BatchKeys)
        /\ SubSeq(ResultKeys, 1, Len(BatchKeys)) = BatchKeys
        /\ IsSubsequence(ResultTail, CombinedKeys)
        /\ \A k \in Range(BatchKeys) \cap Range(CombinedKeys) : Count(k, ResultKeys) = 1

\* C5: the keys marked found after the batch query are exactly the keys the
\* batch query answered, and an issue of the combined answer is left out only
\* if the batch query answered its key or the key came earlier in that answer.
C5_FoundAreReturned ==
    /\ Running("GetChildIssues", "combined")
         => Top.foundKeys = KeySet(Top.children)
    /\ Resolved =>
         \A n \in DOMAIN CombinedKeys :
            ( /\ CombinedKeys[n] \notin Range(BatchKeys)
              /\ \A m \in 1..(n - 1) : CombinedKeys[m] # CombinedKeys[n] )
            => CombinedKeys[n] \in Range(ResultTail)

\* the query of log entry n failed
Failed(n) == ~log[n].ok

\* C6: a failed query is the last query sent, and once runTree is over after a
\* failed query BuildIssueTree on the root has returned an error.
C6_FailFast ==
    /\ \A n \in DOMAIN log : Failed(n) => n = Len(log)
    /\ (pc = "Done" /\ \E n \in DOMAIN log : Failed(n))
         => /\ runErr # <<>>
            /\ [call |-> "BuildIssueTree", ok |-> FALSE] \in Range(invoked)

\* C6 witness: a query failed below the root after other queries had been
\* answered and a sibling subtree had been attached, and runTree ended in error
C6_Witness ==
    /\ pc = "Done"
    /\ Len(log) >= 4
    /\ Failed(Len(log))
    /\ rootIssue[1].Children # <<>>
    /\ runErr # <<>>

Renderers == {"outputResult", "renderTable", "renderTreeReverse", "renderTree"}

\* C7: whenever runTree invokes a renderer or encoder, GetIssue and then
\* BuildIssueTree have returned without error before it, and nothing failed.
C7_RenderAfterSuccess ==
    \A n \in DOMAIN invoked :
        invoked[n].call \in Renderers =>
            /\ \E i, j \in 1..(n - 1) :
                 /\ i < j
                 /\ invoked[i] = [call |-> "GetIssue", ok |-> TRUE]
                 /\ invoked[j] = [call |-> "BuildIssueTree", ok |-> TRUE]
            /\ \A m \in 1..n : invoked[m].ok
            /\ \A q \in DOMAIN log : log[q].ok
            /\ runErr = <<>>

\* C7 witness: a renderer was invoked on a tree that took queries to build
C7_Witness ==
    /\ pc = "Done"
    /\ invoked # <<>>
    /\ invoked[Len(invoked)].call \in Renderers
    /\ Len(log) >= 2
    /\ rootIssue[1].Children # <<>>

\* C8: a query that fails inside GetChildIssues is the last one it sends and
\* was sent once; GetChildIssues has returned by then, with an error and a nil
\* slice, whatever the batch query had answered.
C8_AbortOnFailure ==
    \A n \in DOMAIN log :
        Failed(n) =>
            /\ n = Len(log)
            /\ \A m \in 1..(n - 1) : log[m].jql # log[n].jql
            /\ stack = <<>>
            /\ retval.err # <<>>
            /\ retval.children = <<>>

\* C8 witness: the batch query answered issues, then the combined query failed
C8_Witness ==
    /\ pc = "GetChildIssues"
    /\ Len(log) = 2
    /\ Failed(2)
    /\ Answered(log[1].jql) # <<>>
    /\ retval.err # <<>>

\* C9: after a query failed, the error on its way up from GetChildIssues and
\* the error runTree ends with both contain the text of that query.
C9_ErrorCarriesQuery ==
    \A n \in DOMAIN log :
        Failed(n) =>
            /\ retval.err # <<>> => Carries(retval.err, log[n].jql)
            /\ pc = "Done" => Carries(runErr, log[n].jql)

\* the queries GetChildIssues sends for one issue
NodeQueries(issue) ==
    (IF Len(issue.Subtasks) > 0 THEN <<BatchQueryOf(issue)>> ELSE <<>>)
        \o <<CombinedJQL(issue.Key)>>

\* the queries of a tree in pre-order: a node's, then each child's subtree's
RECURSIVE PreOrderQueries(_, _)
RECURSIVE SubtreeQueries(_, _)
PreOrderQueries(issue, budget) ==
    IF budget <= 0 THEN <<>>
    ELSE NodeQueries(issue) \o SubtreeQueries(Resolve(issue), budget - 1)
SubtreeQueries(issues, budget) ==
    IF issues = <<>> THEN <<>>
    ELSE PreOrderQueries(Head(issues), budget) \o SubtreeQueries(Tail(issues), budget)

\* C10: the queries of a successful build are, in order, the pre-order walk of
\* the hierarchy: per node the batch query (if it declares subtasks) then the
\* combined query, a node before its descendants, a subtree before the next
\* sibling; so the sequence is a function of the root, the budget and the answers.
C10_PreOrder ==
    BuildSucceeded =>
        [n \in DOMAIN log |-> log[n].jql]
            = PreOrderQueries(Issue(rootIssue[1].Key, rootIssue[1].Subtasks), depth)

\* C10 witness: a build two levels deep whose root has two children with
\* different keys, where some node sent a batch query
C10_Witness ==
    /\ BuildSucceeded
    /\ depth = 2
    /\ Len(rootIssue[1].Children) >= 2
    /\ rootIssue[1].Children[1].Key # rootIssue[1].Children[2].Key
    /\ \E n \in DOMAIN log : log[n].jql[1] = "key IN"
    /\ Len(log) >= 4

\* the node occurrences of a built tree that lie less than `budget` levels
\* below `node`, in pre-order (an issue attached twice occurs twice)
RECURSIVE Occurrences(_, _)
RECURSIVE OccurrencesOf(_, _)
Occurrences(node, budget) ==
    IF budget <= 0 THEN <<>>
    ELSE <<node>> \o OccurrencesOf(node.Children, budget - 1)
OccurrencesOf(nodes, budget) ==
    IF nodes = <<>> THEN <<>>
    ELSE Occurrences(Head(nodes), budget) \o OccurrencesOf(Tail(nodes), budget)

\* the texts of the queries sent so far
Sent == [n \in DOMAIN log |-> log[n].jql]

\* how many of the occurrences have `jql` as their combined / batch query
CombinedOwed(jql, occ) ==
    Cardinality({n \in DOMAIN occ : CombinedJQL(occ[n].Key) = jql})
BatchOwed(jql, occ) ==
    Cardinality({n \in DOMAIN occ :
                    Len(occ[n].Subtasks) > 0 /\ BatchQueryOf(occ[n]) = jql})

\* C11: in a successful build every node occurrence above depth maxDepth
\* accounts for one combined query, and for one batch query exactly if it
\* declares subtasks; no other query is sent (none for the nodes at depth
\* maxDepth, none per subtask), and an issue occurring twice is queried twice.
C11_QueriesPerOccurrence ==
    BuildSucceeded =>
        LET occ == Occurrences(rootIssue[1], depth) IN
        /\ \A jql \in Range(Sent) :
              Count(jql, Sent) = CombinedOwed(jql, occ) + BatchOwed(jql, occ)
        /\ \A n \in DOMAIN occ :
              /\ Count(CombinedJQL(occ[n].Key), Sent) >= 1
              /\ Len(occ[n].Subtasks) > 0 => Count(BatchQueryOf(occ[n]), Sent) >= 1
        /\ Len(Sent) = Len(occ)
              + Cardinality({n \in DOMAIN occ : Len(occ[n].Subtasks) > 0})

\* C11 witness: a build two levels deep in which an issue occurs twice above
\* the cut-off and its combined query was sent twice, and a batch query was sent
C11_Witness ==
    /\ BuildSucceeded
    /\ depth = 2
    /\ \E m, n \in DOMAIN Sent : m < n /\ Sent[m] = Sent[n]
    /\ \E n \in DOMAIN Sent : Sent[n][1] = "key IN"
    /\ Height(rootIssue[1]) = 2

\* the calls of BuildIssueTree that are running, outermost first
BuildCalls == SelectSeq(stack, LAMBDA f : f.fn = "BuildIssueTree")

\* the recursion of BuildIssueTree is never deeper than maxDepth: the call
\* nested d levels below the root's holds the budget maxDepth - d, and only
\* the root's call may hold a budget below zero
RecursionBounded ==
    /\ Len(BuildCalls) <= 1 + Max({depth, 0})
    /\ \A d \in DOMAIN BuildCalls :
          /\ BuildCalls[d].maxDepth = depth - (d - 1)
          /\ d > 1 => BuildCalls[d].maxDepth >= 0

\* C12: BuildIssueTree terminates for every maxDepth and every tracker that
\* answers with finite results, a cyclic one included, and its recursion is
\* never deeper than maxDepth.
C12_Terminates == []RecursionBounded /\ <>(pc = "Done")

\* C12 witness: a build ended on a cyclic tracker: an issue of the tree is
\* its own descendant, two levels down
C12_Witness ==
    /\ BuildSucceeded
    /\ depth = 2
    /\ \E child \in NodesAt(rootIssue[1], 1) :
         \E grandchild \in NodesAt(child, 1) :
            /\ child.Key = rootIssue[1].Key
            /\ grandchild.Key = rootIssue[1].Key

\* `node` is `issue` expanded with `budget`: down to the cut-off, the children
\* of every node are the issues the resolver returned for it, in that order,
\* each expanded with one less
RECURSIVE Expanded(_, _, _)
Expanded(node, issue, budget) ==
    /\ node.Key = issue.Key
    /\ node.Subtasks = issue.Subtasks
    /\ IF budget <= 0 THEN node.Children = <<>>
       ELSE LET resolved == Resolve(issue) IN
            /\ Len(node.Children) = Len(resolved)
            /\ \A n \in DOMAIN node.Children :
                  Expanded(node.Children[n], resolved[n], budget - 1)

\* a running call of BuildIssueTree that is past GetChildIssues
InLoop(f) == f.fn = "BuildIssueTree" /\ f.pc \in {"loop", "afterChild"}

\* C13: the children attached to a node are, in order, the issues
\* GetChildIssues returned for it: while the loop runs they are the first i-1
\* of them, each fully expanded with maxDepth - 1 before it was appended, and
\* after a successful build every node above the cut-off holds all of them.
C13_ChildrenAsResolved ==
    /\ \A d \in DOMAIN stack :
          InLoop(stack[d]) =>
            LET f == stack[d] IN
            /\ KeysOf(f.children) = KeysOf(Resolve(f.issue))
            /\ Len(f.issue.Children) = f.i - 1
            /\ \A n \in DOMAIN f.issue.Children :
                  Expanded(f.issue.Children[n], f.children[n], f.maxDepth - 1)
    /\ BuildSucceeded =>
          Expanded(rootIssue[1],
                   Issue(rootIssue[1].Key, rootIssue[1].Subtasks), depth)

\* C13 witness: a build two levels deep whose root holds two children with
\* different keys, the first of them with children of its own
C13_Witness ==
    /\ BuildSucceeded
    /\ depth = 2
    /\ Len(rootIssue[1].Children) = 2
    /\ rootIssue[1].Children[1].Key # rootIssue[1].Children[2].Key
    /\ rootIssue[1].Children[1].Children # <<>>

\* the keys of the nodes of a tree, in pre-order
RECURSIVE PreOrderKeys(_)
RECURSIVE PreOrderKeysOf(_)
PreOrderKeys(node) == <<node.Key>> \o PreOrderKeysOf(node.Children)
PreOrderKeysOf(nodes) ==
    IF nodes = <<>> THEN <<>>
    ELSE PreOrderKeys(Head(nodes)) \o PreOrderKeysOf(Tail(nodes))

\* no node of the tree holds a back-reference
RECURSIVE NoParent(_)
NoParent(node) ==
    /\ node.Parent = NIL
    /\ \A n \in DOMAIN node.Children : NoParent(node.Children[n])

\* the last piece of a line or of a leading column: the label's key
LastOf(text) == text[Len(text)]
KeysPrinted ==
    [n \in DOMAIN out |->
        LastOf(IF Rendered("renderTable") THEN out[n][1] ELSE out[n])]

\* two sequences hold the same elements the same number of times
SameBag(s, t) ==
    /\ Len(s) = Len(t)
    /\ \A x \in Range(s) \cup Range(t) : Count(x, s) = Count(x, t)

LinesOf(key) == {n \in DOMAIN out : LastOf(out[n]) = key}
LineOf(key) == out[CHOOSE n \in LinesOf(key) : TRUE]

\* the piece in front of the label, "" when there is none
ConnectorOf(line) == IF Len(line) >= 2 THEN line[Len(line) - 1] ELSE ""

\* below `node`, every child's line has the connector of its place
RECURSIVE ConnectorsByPlace(_)
ConnectorsByPlace(node) ==
    \A n \in DOMAIN node.Children :
        /\ Cardinality(LinesOf(node.Children[n].Key)) = 1
        /\ ConnectorOf(LineOf(node.Children[n].Key))
             = (IF n = Len(node.Children) THEN ELL ELSE TEE)
        /\ ConnectorOf(LineOf(node.Children[n].Key)) = ELL
             <=> n = Len(node.Children)
        /\ ConnectorsByPlace(node.Children[n])

\* C15: in the forward rendering the line of every node but the root has the
\* corner connector if the node is the last of its parent's children and the
\* branch connector otherwise.
C15_Connectors ==
    (Rendered("renderTree") /\ rootIssue # NIL) => ConnectorsByPlace(rootIssue[1])

\* C15 witness: a node with three children [A, B, C] was rendered forward:
\* A and B with the branch connector, C with the corner
C15_Witness ==
    /\ Rendered("renderTree")
    /\ rootIssue # NIL
    /\ Len(rootIssue[1].Children) = 3
    /\ ConnectorOf(LineOf(rootIssue[1].Children[1].Key)) = TEE
    /\ ConnectorOf(LineOf(rootIssue[1].Children[2].Key)) = TEE
    /\ ConnectorOf(LineOf(rootIssue[1].Children[3].Key)) = ELL

\* a line has a connector in front of its label
HasConnector(line) == ConnectorOf(line) \in {TEE, ELL}

\* C16: the forward rendering prints the line of a root without ancestor as
\* the bare label, no prefix and no connector; every other line has a
\* connector: those of the nodes below the root, and the root's own when its
\* ancestor reference is set (depth 0 alone does not suppress it).
C16_RootLine ==
    (Rendered("renderTree") /\ rootIssue # NIL) =>
        /\ out # <<>>
        /\ rootIssue[1].Parent = NIL => out[1] = formatIssueInfo(rootIssue[1])
        /\ rootIssue[1].Parent # NIL
             => out[1] = <<ELL>> \o formatIssueInfo(rootIssue[1])
        /\ \A n \in DOMAIN out :
             HasConnector(out[n]) <=> (n > 1 \/ rootIssue[1].Parent # NIL)

\* C16 witness: a root without ancestor and with descendants was rendered
\* forward: its line is the bare label, the lines below have connectors
C16_Witness ==
    /\ Rendered("renderTree")
    /\ rootIssue # NIL
    /\ rootIssue[1].Parent = NIL
    /\ Len(out) >= 3
    /\ out[1] = <<rootIssue[1].Key>>
    /\ HasConnector(out[2])

\* the pieces of a line in front of its connector
PrefixOf(line) == SubSeq(line, 1, Len(line) - 2)

\* the unit a node contributes to the prefix of the lines below it
UnitOf(isLast) == IF isLast THEN GAP ELSE BAR

\* the lines of the nodes below `node`, which lies at depth d, start with
\* `units`: one unit per ancestor of theirs from depth 1 on
RECURSIVE PrefixesByAncestors(_, _, _)
PrefixesByAncestors(node, units, d) ==
    \A n \in DOMAIN node.Children :
        LET line == LineOf(node.Children[n].Key) IN
        /\ Len(line) >= 2
        /\ PrefixOf(line) = units
        /\ Len(PrefixOf(line)) = d
        /\ PrefixesByAncestors(node.Children[n],
                               units \o <<UnitOf(n = Len(node.Children))>>, d + 1)

\* C17: in the forward rendering of a tree whose root has no connector, the
\* line of a node at depth d >= 1 starts with d-1 units, one per ancestor at
\* the depths 1..d-1: four spaces for an ancestor that is the last child of
\* its parent, the vertical bar and three spaces for any other; the children
\* of the root have the empty prefix.
C17_Prefix ==
    (Rendered("renderTree") /\ rootIssue # NIL /\ rootIssue[1].Parent = NIL)
        => PrefixesByAncestors(rootIssue[1], <<>>, 0)

\* C17 witness: a node at depth 3 below a non-last ancestor at depth 1 and a
\* last ancestor at depth 2: its prefix is the bar unit, then four spaces
C17_Witness ==
    /\ Rendered("renderTree")
    /\ rootIssue # NIL
    /\ rootIssue[1].Parent = NIL
    /\ \E n \in DOMAIN out :
         /\ Len(out[n]) = 4
         /\ PrefixOf(out[n]) = <<BAR, GAP>>

\* C18: against the scenario's tracker, with maxDepth = 2 and a root EPIC-1
\* without inline subtasks, fetch, build and forward rendering print exactly
\* four lines: EPIC-1, branch STORY-1, bar-unit corner SUB-1, corner STORY-2.
C18_EndToEnd ==
    (Rendered("renderTree") /\ depth = 2 /\ rootIssue[1].Subtasks = <<>>)
        => out = << <<"EPIC-1">>,
                    <<TEE, "STORY-1">>,
                    <<BAR, ELL, "SUB-1">>,
                    <<ELL, "STORY-2">> >>

\* C18 witness: the scenario ran to its end: four queries answered, the tree
\* built with SUB-1 below STORY-1, four lines printed
C18_Witness ==
    /\ Rendered("renderTree")
    /\ depth = 2
    /\ rootIssue[1].Subtasks = <<>>
    /\ Len(log) = 4
    /\ KeysOf(rootIssue[1].Children) = <<"STORY-1", "STORY-2">>
    /\ KeysOf(rootIssue[1].Children[1].Children) = <<"SUB-1">>
    /\ Len(out) = 4

\* where the line of the node with key `key` stands in the output
Pos(key) == CHOOSE n \in LinesOf(key) : TRUE

\* the ancestors of a node, nearest first
RECURSIVE ChainOf(_)
ChainOf(node) ==
    IF node.Parent = NIL THEN <<>> ELSE <<node.Parent[1]>> \o ChainOf(node.Parent[1])

\* in the subtree of `node`: every line stands after the lines of the node's
\* descendants, and the subtree of a child before that of the next child
RECURSIVE PostOrdered(_)
PostOrdered(node) ==
    /\ \A n \in DOMAIN node.Children :
          /\ \A k \in Range(PreOrderKeys(node.Children[n])) : Pos(k) < Pos(node.Key)
          /\ n > 1 => \A k \in Range(PreOrderKeys(node.Children[n])) :
                         Pos(node.Children[n - 1].Key) < Pos(k)
          /\ PostOrdered(node.Children[n])

\* every node that belongs to the rendering: the tree of the issue, then
\* the trees of its ancestors
AllKeys(node) ==
    PreOrderKeys(node)
        \o PreOrderKeysOf([n \in DOMAIN ChainOf(node) |-> ChainOf(node)[n]])

\* C19: the reverse rendering prints every node once, the line of a node
\* after the lines of all its descendants with siblings in children order,
\* and the ancestors of the rendered issue after the issue's own line, the
\* nearest first.
C19_ReverseOrder ==
    (Rendered("renderTreeReverse") /\ rootIssue # NIL) =>
        LET root == rootIssue[1]
            chain == ChainOf(root) IN
        /\ SameBag(KeysPrinted, AllKeys(root))
        /\ \A k \in Range(AllKeys(root)) : Cardinality(LinesOf(k)) = 1
        /\ PostOrdered(root)
        /\ \A n \in DOMAIN chain :
              /\ PostOrdered(chain[n])
              /\ Pos(root.Key) < Pos(chain[n].Key)
              /\ \A k \in Range(PreOrderKeys(root)) : Pos(k) < Pos(chain[n].Key)
              /\ n > 1 => Pos(chain[n - 1].Key) < Pos(chain[n].Key)

\* C19 witness: the tree of the scenario under a chain of two ancestors: the
\* grandchild, the first child, the second child, the issue, the nearest
\* ancestor, the farthest ancestor
C19_Witness ==
    /\ Rendered("renderTreeReverse")
    /\ rootIssue # NIL
    /\ KeysPrinted = <<"3", "2", "4", "1", "-1", "-2">>
    /\ KeysOf(rootIssue[1].Children) = <<"2", "4">>

\* the leading column of the row written for the node with key `key`
RowsOf(key) == {n \in DOMAIN out : LastOf(out[n][1]) = key}
IdColumnOf(key) == out[CHOOSE n \in RowsOf(key) : TRUE][1]

\* the hierarchy indicator of depth d followed by the key
Indicated(key, d) ==
    IF d <= 0 THEN <<key>> ELSE [k \in 1..(d - 1) |-> BAR] \o <<TEE, key>>

\* the rows of `node`, which lies at depth d, and of the nodes below it
\* lead with the indicator of their depth
RECURSIVE IndicatedByDepth(_, _)
IndicatedByDepth(node, d) ==
    /\ Cardinality(RowsOf(node.Key)) = 1
    /\ IdColumnOf(node.Key) = Indicated(node.Key, d)
    /\ \A n \in DOMAIN node.Children : IndicatedByDepth(node.Children[n], d + 1)

RECURSIVE NodeCount(_)
RECURSIVE NodeCountOf(_)
NodeCount(node) == 1 + NodeCountOf(node.Children)
NodeCountOf(nodes) ==
    IF nodes = <<>> THEN 0 ELSE NodeCount(Head(nodes)) + NodeCountOf(Tail(nodes))

\* C21: the table of a tree without ancestor references, as BuildIssueTree
\* builds them, has one row per node, root included, and the rows stand in
\* pre-order: a node before its children, the children in children order.
C21_RowsPreOrder ==
    (Rendered("renderTable") /\ rootIssue # NIL /\ rootIssue[1].Parent = NIL) =>
        /\ Len(out) = NodeCount(rootIssue[1])
        /\ KeysPrinted = PreOrderKeys(rootIssue[1])

\* C21 witness: the table of a tree of five nodes on three levels, whose root
\* has two children: five rows
C21_Witness ==
    /\ Rendered("renderTable")
    /\ rootIssue # NIL
    /\ rootIssue[1].Parent = NIL
    /\ Len(rootIssue[1].Children) = 2
    /\ Height(rootIssue[1]) = 2
    /\ Len(out) = 5
    /\ KeysPrinted = <<"1", "2", "3", "4", "5">>

\* what stands in front of the key or label in a line or leading column
IndicatorOf(text) == SubSeq(text, 1, Len(text) - 1)

\* C22: the table lists the nodes in the order of the lines of the forward
\* rendering of the same tree, and the hierarchy indicator in front of the key
\* of a row is piece for piece the prefix and connector the forward renderer
\* prints in front of that node's label.
C22_TableMatchesForward ==
    (Rendered("renderTable") /\ rootIssue # NIL) =>
        LET forward == renderTree(rootIssue, <<>>, 0, TRUE) IN
            /\ Len(out) = Len(forward)
            /\ \A n \in DOMAIN out :
                    /\ LastOf(out[n][1]) = LastOf(forward[n])
                    /\ IndicatorOf(out[n][1]) = IndicatorOf(forward[n])

\* ------------------------------------------------------------------- labels
\* the descriptive fields an issue can come with
Summaries == {"", "Fix login", "Crash on save"}
StatusNames == {"", "Open", "Done"}
IssueTypeNames == {"Bug", "Story"}
Assignees == {NIL, <<[DisplayName |-> "Ann"]>>, <<[DisplayName |-> ""]>>}

\* part_002 43-69: an issue with the fields the label reads
LabelInputs ==
    {[Key |-> RootKey,
      Fields |-> [Summary |-> summary, Status |-> [Name |-> status],
                  IssueType |-> [Name |-> type], Assignee |-> assignee]] :
        summary \in Summaries, status \in StatusNames,
        type \in IssueTypeNames, assignee \in Assignees}

\* tree.go 177-182: getAssigneeDisplay
getAssigneeDisplay(issue) ==
    IF issue.Fields.Assignee # NIL THEN issue.Fields.Assignee[1].DisplayName
    ELSE "Unassigned"

\* tree.go 158-175: formatIssueInfo in full: the text that follows the key in
\* the label, under the package flag showAll
formatIssueInfoText(issue, showAll) ==
    IF showAll
    THEN formatIssueInfo(issue)[1] \o ": " \o issue.Fields.Summary
             \o " [" \o issue.Fields.Status.Name \o "]"
             \o " (" \o issue.Fields.IssueType.Name \o ")"
             \o " - " \o getAssigneeDisplay(issue)
    ELSE LET status == IF issue.Fields.Status.Name # ""
                       THEN " [" \o issue.Fields.Status.Name \o "]" ELSE ""
         IN  formatIssueInfo(issue)[1] \o ": " \o issue.Fields.Summary \o status

InitLabel ==
    /\ pc = "label"
    /\ stack = <<>>
    /\ retval = NoRet
    /\ tracker = <<>>
    /\ declared = [k \in TreeKeys |-> <<>>]
    /\ log = <<>>
    /\ rootIssue \in {<<issue>> : issue \in LabelInputs}
    /\ depth = 0
    /\ invoked = <<>>
    /\ runErr = <<>>
    /\ out = <<>>

\* tree.go 100, 149: a renderer prints the label of the issue
PrintLabel(showAll) ==
    /\ pc = "label"
    /\ out' = <<formatIssueInfoText(rootIssue[1], showAll)>>
    /\ invoked' = <<[call |-> "formatIssueInfo", ok |-> TRUE, showAll |-> showAll]>>
    /\ pc' = "Done"
    /\ UNCHANGED <<stack, retval, tracker, declared, log, rootIssue, depth, runErr>>

PrintLabelCompact == PrintLabel(FALSE)
PrintLabelVerbose == PrintLabel(TRUE)

NextLabel ==
    \/ PrintLabelCompact
    \/ PrintLabelVerbose

SpecLabel == InitLabel /\ [][NextLabel]_vars

\* C23: the compact label is `KEY: summary [status]`, the status segment left
\* out exactly when the status name is empty; the verbose label is
\* `KEY: summary [status] (type) - assignee`, the assignee being the display
\* name of the assignee when one is set and the empty text otherwise.
C23_Label ==
    (pc = "Done" /\ invoked # <<>> /\ invoked[1].call = "formatIssueInfo") =>
        LET issue == rootIssue[1]
            fields == issue.Fields
            assignee == IF fields.Assignee # NIL
                        THEN fields.Assignee[1].DisplayName ELSE ""
        IN  IF invoked[1].showAll
            THEN out[1] = issue.Key \o ": " \o fields.Summary
                              \o " [" \o fields.Status.Name \o "]"
                              \o " (" \o fields.IssueType.Name \o ")"
                              \o " - " \o assignee
            ELSE /\ fields.Status.Name = ""
                    => out[1] = issue.Key \o ": " \o fields.Summary
                 /\ fields.Status.Name # ""
                    => out[1] = issue.Key \o ": " \o fields.Summary
                                    \o " [" \o fields.Status.Name \o "]"

\* -------------------------------------------------------------------- texts
\* A Go string is a sequence of bytes. The rune "E" stands for a character of
\* two bytes, "E1" "E2" in UTF-8; every other rune is one byte, itself.
Runes == {"a", "E"}
MaxRunes == 5
MaxWidth == 6
MaxOver == 2
MaxWide == 3
SummaryWidthAll == 40
SummaryWidth == 50

\* utf8.RuneError, what decoding yields for a byte that is no character
RuneError == "?"

\* string(runes): the bytes of a sequence of runes
RECURSIVE Encode(_)
Encode(runes) ==
    IF runes = <<>> THEN <<>>
    ELSE (IF Head(runes) = "E" THEN <<"E1", "E2">> ELSE <<Head(runes)>>)
             \o Encode(Tail(runes))

\* []rune(s): the runes of a string of bytes
RECURSIVE Decode(_)
Decode(s) ==
    IF s = <<>> THEN <<>>
    ELSE IF s[1] = "E1" /\ Len(s) >= 2 /\ s[2] = "E2"
         THEN <<"E">> \o Decode(SubSeq(s, 3, Len(s)))
    ELSE IF s[1] \in {"E1", "E2"} THEN <<RuneError>> \o Decode(Tail(s))
    ELSE <<s[1]>> \o Decode(Tail(s))

\* the literal "..."
Ellipsis == <<".", ".", ".">>

\* strings.go 12-32: Truncate; utf8.RuneCountInString(s) is Len(Decode(s))
Truncate(s, maxLen) ==
    IF maxLen <= 0 THEN <<>>
    ELSE IF maxLen <= 3
         THEN (IF Len(Decode(s)) <= maxLen THEN s
               ELSE Encode(SubSeq(Decode(s), 1, maxLen)))
    ELSE IF Len(Decode(s)) <= maxLen THEN s
    ELSE Encode(SubSeq(Decode(s), 1, maxLen - 3)) \o Ellipsis

\* tree.go 298-303: truncateString; len(s) and s[:maxLen-3] count bytes
truncateString(s, maxLen) ==
    IF Len(s) <= maxLen THEN s
    ELSE SubSeq(s, 1, maxLen - 3) \o Ellipsis

\* the texts of up to MaxRunes characters
ShortTexts == {Encode(runes) : runes \in SeqsUpTo(Runes, MaxRunes)}

\* summaries about as long as the summary column is wide: narrow characters
\* followed by a few wide ones
LongTexts ==
    {Encode([n \in 1..(narrow + wide) |-> IF n <= narrow THEN "a" ELSE "E"]) :
        narrow \in 0..(SummaryWidth + MaxOver), wide \in 0..MaxWide}

\* a call about to be made
TextCall(fn, s, maxLen) == [fn |-> fn, s |-> s, maxLen |-> maxLen]

\* strings.go 12: the calls of Truncate, among them ("Hello World", 5),
\* ("Hi", 10) and ("abcdef", 2)
TruncateCalls ==
    {TextCall("Truncate", s, maxLen) : s \in ShortTexts, maxLen \in -1..MaxWidth}
        \cup {TextCall("Truncate",
                        <<"H", "e", "l", "l", "o", " ", "W", "o", "r", "l", "d">>, 5),
               TextCall("Truncate", <<"H", "i">>, 10),
               TextCall("Truncate", <<"a", "b", "c", "d", "e", "f">>, 2)}

\* tree.go 280, 292: the calls of truncateString on the summary of a row
TruncateStringCalls ==
    {TextCall("truncateString", s, maxLen) :
        s \in ShortTexts \cup LongTexts, maxLen \in {SummaryWidthAll, SummaryWidth}}

InitText ==
    /\ pc = "text"
    /\ stack \in {<<call>> : call \in TruncateCalls \cup TruncateStringCalls}
    /\ retval = NoRet
    /\ tracker = <<>>
    /\ declared = [k \in TreeKeys |-> <<>>]
    /\ log = <<>>
    /\ rootIssue = NIL
    /\ depth = 0
    /\ invoked = <<>>
    /\ runErr = <<>>
    /\ out = <<>>

\* the call on the stack returns `result`
TextReturn(fn, result) ==
    /\ pc = "text"
    /\ stack[1].fn = fn
    /\ out' = <<result>>
    /\ invoked' = <<[call |-> fn, ok |-> TRUE, s |-> stack[1].s,
                      maxLen |-> stack[1].maxLen]>>
    /\ stack' = <<>>
    /\ pc' = "Done"
    /\ UNCHANGED <<retval, tracker, declared, log, rootIssue, depth, runErr>>

CallTruncate == TextReturn("Truncate", Truncate(stack[1].s, stack[1].maxLen))
CallTruncateString ==
    TextReturn("truncateString", truncateString(stack[1].s, stack[1].maxLen))

NextText ==
    \/ CallTruncate
    \/ CallTruncateString

SpecText == InitText /\ [][NextText]_vars

\* a call of fn has returned
Returned(fn) == pc = "Done" /\ invoked # <<>> /\ invoked[1].call = fn

\* the truncation rule: s itself when it has at most n characters, else its
\* first n-3 characters and "..." when n > 3, its first n characters (none
\* for n <= 0) when n <= 3
FirstChars(s, n) == Encode(SubSeq(Decode(s), 1, Max({n, 0})))
TruncationRule(s, n) ==
    IF Len(Decode(s)) <= n THEN s
    ELSE IF n > 3 THEN FirstChars(s, n - 3) \o Ellipsis
    ELSE FirstChars(s, n)

\* the rule holds for Truncate, and the result has at most max(n, 0) characters
C24_TruncateRule ==
    Returned("Truncate") =>
        /\ out[1] = TruncationRule(invoked[1].s, invoked[1].maxLen)
        /\ Len(Decode(out[1])) <= Max({invoked[1].maxLen, 0})

\* C24: Truncate(s, n) follows the truncation rule, its result has at most
\* max(n, 0) characters, and the truncation of the summary in the rows of the
\* tree table follows the same rule.
C24_Truncation ==
    /\ C24_TruncateRule
    /\ Returned("truncateString") =>
            out[1] = TruncationRule(invoked[1].s, invoked[1].maxLen)

\* the output paths taken in the run: the places of `invoked` held by the
\* encoder, the table flattener or an ASCII renderer
OutputPathsTaken == {n \in DOMAIN invoked : invoked[n].call \in Renderers}

\* C25: a run whose build succeeded takes exactly one output path, the one
\* the requested mode names: the encoder for json and yaml, the table
\* flattener for table, otherwise the reverse ASCII renderer when the reverse
\* flag is set and the forward one when it is not.
C25_OneOutputPath ==
    (pc = "Done" /\ [call |-> "BuildIssueTree", ok |-> TRUE] \in Range(invoked)) =>
        /\ Cardinality(OutputPathsTaken) = 1
        /\ \A n \in OutputPathsTaken :
              LET taken == invoked[n] IN
                /\ taken.outputFormat \in {"json", "yaml"}
                      => taken.call = "outputResult"
                /\ taken.outputFormat = "table" => taken.call = "renderTable"
                /\ taken.outputFormat \notin {"json", "yaml", "table"}
                      => taken.call = IF taken.reverse THEN "renderTreeReverse"
                                      ELSE "renderTree"

\* C25 witness: the table was requested for a tree with children, and the
\* table flattener alone ran
C25_Witness ==
    /\ pc = "Done"
    /\ BuildSucceeded
    /\ rootIssue[1].Children # <<>>
    /\ Cardinality(OutputPathsTaken) = 1
    /\ invoked[Len(invoked)] = [call |-> "renderTable", ok |-> TRUE,
                                 outputFormat |-> "table"]
    /\ Len(out) >= 2

\* the expansion of the child in turn has just failed in the topmost call
ChildFailed == Running("BuildIssueTree", "afterChild") /\ retval.err # <<>>

\* C27: when the expansion of the k-th child of a node fails, BuildIssueTree
\* returns that error at once and leaves the node holding exactly the k-1
\* children expanded before, in order and each fully expanded; runTree is left
\* with the root as mutated so far, nothing is rolled back.
C27_PartialOnFailure ==
    [][/\ ChildFailed =>
            LET k == Top.i
                node == retval'.obj
            IN  /\ stack' = Pop
                /\ retval'.err = retval.err
                /\ node # NIL
                /\ node[1].Key = Top.issue.Key
                /\ Len(node[1].Children) = k - 1
                /\ \A n \in 1..(k - 1) :
                      Expanded(node[1].Children[n], Top.children[n], Top.maxDepth - 1)
       /\ (pc = "BuildIssueTree" /\ stack = <<>> /\ retval.err # <<>>) =>
            rootIssue' = retval.obj
      ]_vars

\* C27 witness: the build failed on the second child of the root: the run is
\* over with an error and the root holds its first child alone, expanded with
\* children of its own, although two children were resolved for it
C27_Witness ==
    /\ pc = "Done"
    /\ runErr # <<>>
    /\ rootIssue # NIL
    /\ Len(Resolve(rootIssue[1])) = 2
    /\ Len(rootIssue[1].Children) = 1
    /\ rootIssue[1].Children[1].Children # <<>>

\* a renderer that was handed nil has written nothing and reported nothing
NilNoOp ==
    (pc = "Done" /\ rootIssue = NIL /\ invoked # <<>>
        /\ invoked[1].call \in {"renderTree", "renderTreeReverse", "renderTable"})
    => (out = <<>> /\ runErr = <<>>)

\* C26: each of the three renderers treats a nil node as a no-op: no line, no
\* row, no error, nothing changed; and on every finite tree, those without
\* ancestor references among them, each renderer returns without failing and
\* leaves the tree as it was.
C26_NilNoOpAndTermination ==
    /\ []NilNoOp
    /\ [][rootIssue' = rootIssue /\ runErr' = <<>>]_vars
    /\ <>(pc = "Done" /\ runErr = <<>>)

\* C26 witness: the reverse renderer has returned from a nil node, nothing
\* written
C26_Witness ==
    /\ Rendered("renderTreeReverse")
    /\ rootIssue = NIL
    /\ out = <<>>
    /\ runErr = <<>>

\* ------------------------------------------------------------------- search
\* part_003 124: the number of issues asked for per page
pageSize == 100
MaxPages == 3

\* the queries of the search command
SearchJQLs == {<<"project = GIRA">>, <<"assignee = me">>}

\* what the tracker can answer to a page request: a page of 0..pageSize
\* issues and the total it reports with it, which may change between pages
PageLengths == {0, 1, pageSize - 1, pageSize}
Totals == {p * pageSize + e : p \in 0..(MaxPages - 1), e \in {0, 1}}

\* part_002 134-139: the page the tracker serves for request number r, the
\* n-th issue of it being <<r, n>>
Page(r, startAt, length, total) ==
    [Issues |-> [n \in 1..length |-> <<r, n>>], StartAt |-> startAt,
     MaxResults |-> pageSize, Total |-> total]

\* part_003 208-212: the call of searchAllIssues(jql) at its first iteration
SearchFrame(jql) ==
    [fn |-> "searchAllIssues", jql |-> jql, allIssues |-> <<>>, startAt |-> 0,
     totalCount |-> 0]

\* mutant of StoreTotal: the total of the latest page is kept
StoreTotal_Latest(startAt, totalCount, tempResult) == tempResult.Total

\* part_003 221-223: `if startAt == 0 { totalCount = tempResult.Total }`
StoreTotal(startAt, totalCount, tempResult) ==
    IF startAt = 0 THEN tempResult.Total ELSE totalCount

\* mutant of LastPage: a short page does not end the loop
LastPage_TotalOnly(tempResult, startAt) ==
    startAt + Len(tempResult.Issues) >= tempResult.Total

\* part_003 229: the condition of the `break`
LastPage(tempResult, startAt) ==
    \/ Len(tempResult.Issues) < pageSize
    \/ startAt + Len(tempResult.Issues) >= tempResult.Total

\* part_003 215: the request of an iteration
PageRequest(f) == [jql |-> f.jql, startAt |-> f.startAt, maxResults |-> pageSize]

InitSearch ==
    /\ pc = "searchAllIssues"
    /\ stack \in {<<SearchFrame(jql)>> : jql \in SearchJQLs}
    /\ retval = NoRet
    /\ tracker = <<>>
    /\ declared = [k \in TreeKeys |-> <<>>]
    /\ log = <<>>
    /\ rootIssue = NIL
    /\ depth = 0
    /\ invoked = <<>>
    /\ runErr = <<>>
    /\ out = <<>>

\* part_003 213-243: one iteration whose request is answered: the page is
\* appended, then the loop either ends, and the single result is returned, or
\* moves to the next page
searchAllIssues_Page ==
    /\ pc = "searchAllIssues"
    /\ Len(log) < MaxPages
    /\ \E length \in PageLengths, total \in Totals :
         LET f == stack[1]
             tempResult == Page(Len(log) + 1, f.startAt, length, total)
             totalCount == StoreTotal(f.startAt, f.totalCount, tempResult)
             allIssues == f.allIssues \o tempResult.Issues
         IN  /\ log' = Append(log, PageRequest(f))
             /\ tracker' = Append(tracker, tempResult)
             /\ IF LastPage(tempResult, f.startAt)
                THEN /\ out' = <<[Issues |-> allIssues, StartAt |-> 0,
                                  MaxResults |-> Len(allIssues),
                                  Total |-> totalCount]>>
                     /\ stack' = <<>>
                     /\ pc' = "Done"
                ELSE /\ stack' = <<[f EXCEPT !.allIssues = allIssues,
                                             !.totalCount = totalCount,
                                             !.startAt = @ + Len(tempResult.Issues)]>>
                     /\ UNCHANGED <<out, pc>>
    /\ UNCHANGED <<retval, declared, rootIssue, depth, invoked, runErr>>

\* part_003 215-218: the request of an iteration fails: `return nil, err`
searchAllIssues_Error ==
    /\ pc = "searchAllIssues"
    /\ Len(log) < MaxPages
    /\ \E err \in SearchFailures :
         /\ log' = Append(log, PageRequest(stack[1]))
         /\ runErr' = err
    /\ stack' = <<>>
    /\ pc' = "Done"
    /\ UNCHANGED <<retval, tracker, declared, rootIssue, depth, invoked, out>>

NextSearch ==
    \/ searchAllIssues_Page
    \/ searchAllIssues_Error

SpecSearch == InitSearch /\ [][NextSearch]_vars

\* the loop is sequential code: the next request is made
SpecSearchFair == InitSearch /\ [][NextSearch]_vars /\ WF_vars(NextSearch)

\* the issues of a sequence of pages, page after page
RECURSIVE IssuesOf(_)
IssuesOf(pages) ==
    IF pages = <<>> THEN <<>> ELSE Head(pages).Issues \o IssuesOf(Tail(pages))

\* the search is over
SearchDone == pc = "Done" /\ log # <<>> /\ stack = <<>>

\* C28: searchAllIssues asks for the pages one after the other, each at
\* startAt = the number of issues received so far, the first at 0; when it
\* succeeds it returns one result holding the issues of all pages in fetch
\* order, StartAt 0, MaxResults the number of issues returned and Total the
\* total of the first page; when a page request fails it returns that error
\* and no result.
C28_Pagination ==
    /\ \A n \in DOMAIN log :
          /\ log[n].startAt = Len(IssuesOf(SubSeq(tracker, 1, n - 1)))
          /\ log[n].maxResults = pageSize
          /\ log[n].jql = log[1].jql
    /\ Len(tracker) \in {Len(log), Len(log) - 1}
    /\ (SearchDone /\ runErr = <<>>) =>
          /\ Len(tracker) = Len(log)
          /\ out = <<[Issues |-> IssuesOf(tracker), StartAt |-> 0,
                       MaxResults |-> Len(IssuesOf(tracker)),
                       Total |-> tracker[1].Total]>>
    /\ runErr # <<>> =>
          /\ SearchDone
          /\ Len(tracker) = Len(log) - 1
          /\ runErr \in SearchFailures
          /\ out = <<>>

\* C28 witness: three pages were fetched, the third reporting another total
\* than the first, and the result holds two full pages and one more issue
C28_Witness ==
    /\ SearchDone
    /\ runErr = <<>>
    /\ Len(tracker) = 3
    /\ tracker[3].Total # tracker[1].Total
    /\ Len(out[1].Issues) = 2 * pageSize + 1
    /\ out[1].Total = tracker[1].Total

\* a page has just been received at startAt
PageReceived == pc = "searchAllIssues" /\ Len(tracker') = Len(tracker) + 1

\* C29: the pagination loop ends for every tracker whose totals are finite:
\* it stops after the first page of fewer than pageSize issues, an empty one
\* included, or when startAt plus the length of the page reaches the total
\* the page reports; otherwise it goes on with startAt one full page further.
C29_LoopTerminates ==
    /\ <>(pc = "Done")
    /\ [][PageReceived =>
            LET page == tracker'[Len(tracker')]
                startAt == stack[1].startAt
            IN  IF \/ Len(page.Issues) < pageSize
                   \/ startAt + Len(page.Issues) >= page.Total
                THEN pc' = "Done"
                ELSE /\ pc' = "searchAllIssues"
                     /\ stack'[1].startAt = startAt + pageSize
                     /\ stack'[1].startAt > startAt
         ]_vars

\* C29 witness: after two full pages below the reported totals the loop is
\* about to ask for the third page at twice the page size
C29_Witness ==
    /\ pc = "searchAllIssues"
    /\ Len(tracker) = 2
    /\ stack[1].startAt = 2 * pageSize
    /\ Len(stack[1].allIssues) = 2 * pageSize

\* ----------------------------------------------------------------- wrapping
MaxChars == 5
MaxWrapWidth == 4

\* the characters of the texts to wrap: two letters and the space
WrapChars == {"a", "b", " "}

\* strings.Fields(text): the maximal runs of characters other than white
\* space, in order; `word` is the run being read
RECURSIVE FieldsFrom(_, _)
FieldsFrom(text, word) ==
    IF text = <<>> THEN (IF word = <<>> THEN <<>> ELSE <<word>>)
    ELSE IF Head(text) = " "
         THEN (IF word = <<>> THEN <<>> ELSE <<word>>) \o FieldsFrom(Tail(text), <<>>)
    ELSE FieldsFrom(Tail(text), Append(word, Head(text)))

Fields(text) == FieldsFrom(text, <<>>)

\* the error of a writer
WriteFailures == { Errorf("write failed", <<>>, <<>>) }

\* strings.go 64-85: the loop over the words from the i-th on and the final
\* write; `currentLine` is the builder, `written` the writes made so far, each
\* a line and its newline; the write number failAt fails (none when it is 0)
RECURSIVE WrapFrom(_, _, _, _, _, _)
WrapFrom(words, i, currentLine, written, maxWidth, failAt) ==
    IF i > Len(words)
    THEN (IF Len(currentLine) > 0
          THEN (IF Len(written) + 1 = failAt
                THEN [written |-> written, err |-> CHOOSE e \in WriteFailures : TRUE]
                ELSE [written |-> Append(written, currentLine \o <<"\n">>),
                      err |-> <<>>])
          ELSE [written |-> written, err |-> <<>>])
    ELSE LET word == words[i]
             full == Len(currentLine) > 0
                         /\ Len(currentLine) + 1 + Len(word) > maxWidth
         IN  IF full /\ Len(written) + 1 = failAt
             THEN [written |-> written, err |-> CHOOSE e \in WriteFailures : TRUE]
             ELSE LET line == IF full THEN <<>> ELSE currentLine
                      flushed == IF full
                                 THEN Append(written, currentLine \o <<"\n">>)
                                 ELSE written
                  IN  WrapFrom(words, i + 1,
                               (IF Len(line) > 0 THEN line \o <<" ">> ELSE line)
                                   \o word,
                               flushed, maxWidth, failAt)

\* strings.go 57-88: PrintWrapped: what it writes and the error it returns
PrintWrapped(text, maxWidth, failAt) ==
    LET words == Fields(text) IN
    IF Len(words) = 0 THEN [written |-> <<>>, err |-> <<>>]
    ELSE WrapFrom(words, 1, <<>>, <<>>, maxWidth, failAt)

\* strings.go 57: the calls of PrintWrapped
WrapCalls ==
    {TextCall("PrintWrapped", text, maxWidth) :
        text \in SeqsUpTo(WrapChars, MaxChars), maxWidth \in 0..MaxWrapWidth}

InitWrap ==
    /\ pc = "text"
    /\ stack \in {<<call>> : call \in WrapCalls}
    /\ retval = NoRet
    /\ tracker = <<>>
    /\ declared = [k \in TreeKeys |-> <<>>]
    /\ log = <<>>
    /\ rootIssue = NIL
    /\ depth = 0
    /\ invoked = <<>>
    /\ runErr = <<>>
    /\ out = <<>>

\* PrintWrapped returns after the writes in `result`
WrapReturn(result) ==
    /\ pc = "text"
    /\ stack[1].fn = "PrintWrapped"
    /\ out' = result.written
    /\ runErr' = result.err
    /\ invoked' = <<[call |-> "PrintWrapped", ok |-> result.err = <<>>,
                      s |-> stack[1].s, maxLen |-> stack[1].maxLen]>>
    /\ stack' = <<>>
    /\ pc' = "Done"
    /\ UNCHANGED <<retval, tracker, declared, log, rootIssue, depth>>

\* the writer takes every write
CallPrintWrapped == WrapReturn(PrintWrapped(stack[1].s, stack[1].maxLen, 0))

\* the writer fails one of the writes
CallPrintWrapped_WriteFails ==
    /\ pc = "text"
    /\ \E failAt \in 1..Len(PrintWrapped(stack[1].s, stack[1].maxLen, 0).written) :
          WrapReturn(PrintWrapped(stack[1].s, stack[1].maxLen, failAt))

NextWrap ==
    \/ CallPrintWrapped
    \/ CallPrintWrapped_WriteFails

SpecWrap == InitWrap /\ [][NextWrap]_vars

\* words separated by single spaces
RECURSIVE Join(_)
Join(words) ==
    IF words = <<>> THEN <<>>
    ELSE IF Len(words) = 1 THEN words[1]
    ELSE words[1] \o <<" ">> \o Join(Tail(words))

\* a written line without its newline
Content(line) == SubSeq(line, 1, Len(line) - 1)

\* the words of the written lines, line after line
RECURSIVE WordsWritten(_)
WordsWritten(lines) ==
    IF lines = <<>> THEN <<>>
    ELSE Fields(Content(Head(lines))) \o WordsWritten(Tail(lines))

\* C30: PrintWrapped writes the words of the text in their order, those of a
\* line separated by single spaces, each line ended by a newline, nothing for
\* a text without words; and no line it writes is longer than maxWidth.
C30_Wrapped ==
    (Returned("PrintWrapped") /\ runErr = <<>>) =>
        /\ WordsWritten(out) = Fields(invoked[1].s)
        /\ \A n \in DOMAIN out :
              /\ out[n][Len(out[n])] = "\n"
              /\ Content(out[n]) # <<>>
              /\ Content(out[n]) = Join(Fields(Content(out[n])))
              /\ Len(Content(out[n])) <= invoked[1].maxLen

====
